---- MODULE Spec2Model ----
(***************************************************************************)
(* SimpleHydrology cell pool and tile map.                                 *)
(*                                                                         *)
(*   mappool::buf / slice / pool   src/source/cellpool.h, src/unnamed/part_000 *)
(*   quad::node / quad::map        src/source/cellpool.h                   *)
(*   quadmap::node / quadmap::map  src/unnamed/part_000                    *)
(*   reduce::height / discharge    src/unnamed/part_000                    *)
(*                                                                         *)
(* A pointer T* is a record [blk, off]: the array new T[] returned and the *)
(* element offset in it.  Block 0 is no array: NULL.                       *)
(***************************************************************************)
EXTENDS Integers, Sequences, FiniteSets, TLC

VARIABLES root, free, nres, calls, nodes, ninit, quadmap_nodes, _min, _max, tile, last

vars == <<root, free, nres, calls, nodes, ninit, quadmap_nodes, _min, _max, tile, last>>

(***************************************************************************)
(* Bounds of the model                                                     *)
(***************************************************************************)
\* pool::get calls recorded in one run
MaxCalls == 4
\* pool::reserve calls in one run
MaxReserve == 2

\* quad::map::init calls in one run
MaxInit == 2

\* quadmap::map::add calls in one run
MaxTiles == 4

\* pool capacities and request sizes the pool specification draws from
Capacities == {3, 100}
Sizes == {0, 1, 20, 40, 50}

(***************************************************************************)
(* Values                                                                  *)
(***************************************************************************)
ivec2(a, b) == [x |-> a, y |-> b]

Ptr(b, o) == [blk |-> b, off |-> o]

NULL == Ptr(0, 0)

\* T* + n
PtrAdd(ptr, n) == Ptr(ptr.blk, ptr.off + n)

\* mappool::buf
buf(s, n) == [start |-> s, size |-> n]

\* buf's member initialisers, and the {NULL, 0} pool::get returns on failure
NullBuf == buf(NULL, 0)

\* the record of the operation that ran last
NoLast ==
  [op |-> "none", n |-> 0, p |-> ivec2(0, 0), k |-> 0, buf |-> NullBuf,
   ptr |-> NULL, b |-> FALSE, ind |-> 0, out |-> "none"]

(***************************************************************************)
(* mappool::pool                                                           *)
(***************************************************************************)
\* pool::reserve: a fresh array b of _size elements, put before the free regions
pool_reserve(pl, b, _size) ==
  LET r == buf(Ptr(b, 0), _size)
  IN  [root |-> r, free |-> <<r>> \o pl.free]

\* pool::get without the test of the front region's size
pool_get_nocheck(pl, _size) ==
  IF pl.free = <<>> THEN [ret |-> NullBuf, free |-> pl.free]
  ELSE IF _size > pl.root.size THEN [ret |-> NullBuf, free |-> pl.free]
  ELSE [ret  |-> buf(Head(pl.free).start, _size),
        free |-> <<buf(PtrAdd(Head(pl.free).start, _size),
                       Head(pl.free).size - _size)>> \o Tail(pl.free)]

\* pool::get that does not advance the front region's start
pool_get_nobump(pl, _size) ==
  IF pl.free = <<>> THEN [ret |-> NullBuf, free |-> pl.free]
  ELSE IF _size > pl.root.size THEN [ret |-> NullBuf, free |-> pl.free]
  ELSE IF Head(pl.free).size < _size THEN [ret |-> NullBuf, free |-> pl.free]
  ELSE [ret  |-> buf(Head(pl.free).start, _size),
        free |-> <<buf(Head(pl.free).start,
                       Head(pl.free).size - _size)>> \o Tail(pl.free)]

\* pool::get that does not shrink the front region
pool_get_noshrink(pl, _size) ==
  IF pl.free = <<>> THEN [ret |-> NullBuf, free |-> pl.free]
  ELSE IF _size > pl.root.size THEN [ret |-> NullBuf, free |-> pl.free]
  ELSE IF Head(pl.free).size < _size THEN [ret |-> NullBuf, free |-> pl.free]
  ELSE [ret  |-> buf(Head(pl.free).start, _size),
        free |-> <<buf(PtrAdd(Head(pl.free).start, _size),
                       Head(pl.free).size)>> \o Tail(pl.free)]

\* pool::get: the buffer returned and the free regions afterwards
pool_get(pl, _size) ==
  IF pl.free = <<>> THEN [ret |-> NullBuf, free |-> pl.free]
  ELSE IF _size > pl.root.size THEN [ret |-> NullBuf, free |-> pl.free]
  ELSE IF Head(pl.free).size < _size THEN [ret |-> NullBuf, free |-> pl.free]
  ELSE [ret  |-> buf(Head(pl.free).start, _size),
        free |-> <<buf(PtrAdd(Head(pl.free).start, _size),
                       Head(pl.free).size - _size)>> \o Tail(pl.free)]

cellpool == [root |-> root, free |-> free]

(***************************************************************************)
(* Integer arithmetic of the build: int division truncates toward zero     *)
(***************************************************************************)
\* a / b for ints, b > 0
cdiv(a, b) == IF a >= 0 THEN a \div b ELSE -((-a) \div b)

\* ivec2 - ivec2
vsub(p, q) == ivec2(p.x - q.x, p.y - q.y)

\* ivec2 + ivec2
vadd(p, q) == ivec2(p.x + q.x, p.y + q.y)

\* ivec2 / int, componentwise
vdiv(p, d) == ivec2(cdiv(p.x, d), cdiv(p.y, d))

\* glm::min and glm::max of two ivec2, componentwise
Min2(a, b) == IF a < b THEN a ELSE b
Max2(a, b) == IF a > b THEN a ELSE b
vmin(p, q) == ivec2(Min2(p.x, q.x), Min2(p.y, q.y))
vmax(p, q) == ivec2(Max2(p.x, q.x), Max2(p.y, q.y))

\* math::flatten(p, res): row-major offset
flatten(p, res) == p.x * res.y + p.y

(***************************************************************************)
(* mappool::slice                                                          *)
(***************************************************************************)
\* slice of src/source/cellpool.h: {root, res}
slice(b, r) == [root |-> b, res |-> r]

\* slice of src/unnamed/part_000: {root, res, scale}
slice3(b, r, sc) == [root |-> b, res |-> r, scale |-> sc]

slice_size(s) == s.res.x * s.res.y

\* slice::oob without the two tests against 0
slice_oob_nolow(s, p) ==
  IF p.x >= s.res.x THEN TRUE
  ELSE IF p.y >= s.res.y THEN TRUE
  ELSE FALSE

slice_oob(s, p) ==
  IF p.x >= s.res.x THEN TRUE
  ELSE IF p.y >= s.res.y THEN TRUE
  ELSE IF p.x < 0 THEN TRUE
  ELSE IF p.y < 0 THEN TRUE
  ELSE FALSE

\* slice::get that flattens column-major
slice_get_colmajor(s, p) ==
  IF s.root.start = NULL THEN NULL
  ELSE IF slice_oob(s, p) THEN NULL
  ELSE PtrAdd(s.root.start, p.y * s.res.x + p.x)

slice_get(s, p) ==
  IF s.root.start = NULL THEN NULL
  ELSE IF slice_oob(s, p) THEN NULL
  ELSE PtrAdd(s.root.start, flatten(p, s.res))

(***************************************************************************)
(* quad (src/source/cellpool.h): constants, node, map                      *)
(***************************************************************************)
tilesize == 512
tilearea == tilesize * tilesize
tileres == ivec2(tilesize, tilesize)
mapsize == 2
maparea == mapsize * mapsize
size == mapsize * tilesize
area == maparea * tilearea
levelsize == 2
levelarea == levelsize * levelsize

\* quad::node; vertex is the handle vertexpool.section returned, 0 for NULL
quad_node(pos, res, vertex, s) == [pos |-> pos, res |-> res, vertex |-> vertex, s |-> s]

\* node's member initialisers
quad_node0 == quad_node(ivec2(0, 0), ivec2(0, 0), 0, slice(NullBuf, ivec2(0, 0)))

\* quad::node::get that does not subtract pos
quad_node_get_nopos(t, p) == slice_get(t.s, vdiv(p, levelsize))

quad_node_get(t, p) == slice_get(t.s, vdiv(vsub(p, t.pos), levelsize))

quad_node_oob(t, p) == slice_oob(t.s, vdiv(vsub(p, t.pos), levelsize))

RECURSIVE quad_map_init_loop(_, _, _, _)
\* the body of init's two loops for ind = k, k+1, ..., maparea-1
\* (ind = i*mapsize + j runs through 0 .. maparea-1 in order)
quad_map_init_loop(k, pl, ns, v) ==
  IF k = maparea THEN [pool |-> pl, nodes |-> ns]
  ELSE LET i == k \div mapsize
           j == k % mapsize
           r == pool_get(pl, tilearea \div levelarea)
           n == quad_node(ivec2(tilesize * i, tilesize * j), tileres, v + k,
                          slice(r.ret, vdiv(tileres, levelsize)))
       IN  quad_map_init_loop(k + 1, [root |-> pl.root, free |-> r.free],
                              [ns EXCEPT ![k] = n], v)

\* quad::map::init: the pool and the nodes afterwards
quad_map_init(pl, ns, v) == quad_map_init_loop(0, pl, ns, v)

quad_map_oob(p) ==
  IF p.x < 0 THEN TRUE
  ELSE IF p.y < 0 THEN TRUE
  ELSE IF p.x >= size THEN TRUE
  ELSE IF p.y >= size THEN TRUE
  ELSE FALSE

\* quad::map::get: the index of the node pointed to, -1 for NULL
quad_map_get(p) ==
  IF quad_map_oob(p) THEN -1
  ELSE LET q == ivec2(cdiv(p.x, tileres.x), cdiv(p.y, tileres.y))
       IN  q.x * mapsize + q.y

(***************************************************************************)
(* quadmap (src/unnamed/part_000): node, map, reduce                       *)
(***************************************************************************)
\* WSIZE and TILES are macros defined outside these files: the extent of a
\* tile and the number of tiles per axis.
WSIZE == 4
TILES == 2

\* quadmap::node; vertex is 0 for NULL
quadmap_node(pos, res, vertex, s) == [pos |-> pos, res |-> res, vertex |-> vertex, s |-> s]

\* node's member initialisers
quadmap_node0 ==
  quadmap_node(ivec2(0, 0), ivec2(0, 0), 0, slice3(NullBuf, ivec2(0, 0), 1))

quadmap_node_get(t, p) == slice_get(t.s, vdiv(vsub(p, t.pos), t.s.scale))

quadmap_node_oob(t, p) == slice_oob(t.s, vdiv(vsub(p, t.pos), t.s.scale))

\* quadmap::map as a value
quadmap_map(ns, mn, mx) == [nodes |-> ns, _min |-> mn, _max |-> mx]

\* map::add: the map afterwards
quadmap_map_add(m, n) ==
  quadmap_map(Append(m.nodes, n), vmin(m._min, n.pos), vmax(m._max, vadd(n.pos, n.res)))

quadmap_map_oob(m, p) ==
  IF p.x < m._min.x THEN TRUE
  ELSE IF p.y < m._min.y THEN TRUE
  ELSE IF p.x >= m._max.x THEN TRUE
  ELSE IF p.y >= m._max.y THEN TRUE
  ELSE FALSE

\* map::get with the index transposed
quadmap_map_get_transposed(m, p) ==
  IF quadmap_map_oob(m, p) THEN [null |-> TRUE, ind |-> 0]
  ELSE LET q == ivec2(cdiv(p.x, WSIZE), cdiv(p.y, WSIZE))
       IN  [null |-> FALSE, ind |-> q.y * TILES + q.x]

\* map::get: NULL, or &nodes[ind] as ind (nodes[0] is the sequence's first)
quadmap_map_get(m, p) ==
  IF quadmap_map_oob(m, p) THEN [null |-> TRUE, ind |-> 0]
  ELSE LET q == ivec2(cdiv(p.x, WSIZE), cdiv(p.y, WSIZE))
       IN  [null |-> FALSE, ind |-> q.x * TILES + q.y]

\* what reading through a null pointer, or past the end of nodes, may do
UBOutcomes == {"crash", "garbage"}

\* the pointers a read past the end of nodes may yield
WildPtrs == {NULL, Ptr(-1, 0)}

\* the outcomes of ptr->field
deref(ptr) == IF ptr = NULL THEN UBOutcomes ELSE {"cell"}

\* what a read of a cell came to: whether a pointer was read through, the node
\* index used, the pointer, the outcome
ReadResult(b, ind, ptr, out) == [b |-> b, ind |-> ind, ptr |-> ptr, out |-> out]

\* reduce::height(map&, p) and reduce::discharge(map&, p): p is divided by
\* WSIZE and the quotient is handed on to the node.  The results the build can
\* produce: one, unless it reads through NULL or reads nodes[ind] past the end.
reduce_map_read(m, p) ==
  IF quadmap_map_oob(m, p)
    THEN {ReadResult(FALSE, 0, NULL, "zero")}
    ELSE LET q == ivec2(cdiv(p.x, WSIZE), cdiv(p.y, WSIZE))
             ind == q.x * TILES + q.y
         IN  IF ind \in 0 .. Len(m.nodes) - 1
               THEN {ReadResult(TRUE, ind, quadmap_node_get(m.nodes[ind + 1], q), o) :
                       o \in deref(quadmap_node_get(m.nodes[ind + 1], q))}
               ELSE {ReadResult(TRUE, ind, w, o) : w \in WildPtrs, o \in UBOutcomes}

(***************************************************************************)
(* Initial state: pool(), map and node as their member initialisers leave  *)
(* them.                                                                   *)
(***************************************************************************)
Init ==
  /\ root = NullBuf
  /\ free = <<>>
  /\ nres = 0
  /\ calls = <<>>
  /\ nodes = [k \in 0 .. maparea - 1 |-> quad_node0]
  /\ ninit = 0
  /\ quadmap_nodes = <<>>
  /\ _min = ivec2(0, 0)
  /\ _max = ivec2(0, 0)
  /\ tile = 0
  /\ last = NoLast

RestUnchanged == UNCHANGED <<nodes, ninit, quadmap_nodes, _min, _max, tile>>

(***************************************************************************)
(* Pool operations                                                         *)
(***************************************************************************)
Reserve(_size) ==
  /\ nres < MaxReserve
  /\ LET pl == pool_reserve(cellpool, nres + 1, _size)
     IN  /\ root' = pl.root
         /\ free' = pl.free
  /\ nres' = nres + 1
  /\ last' = [NoLast EXCEPT !.op = "pool_reserve", !.n = _size]
  /\ UNCHANGED calls
  /\ RestUnchanged

Get(_size) ==
  /\ Len(calls) < MaxCalls
  /\ LET r == pool_get(cellpool, _size)
     IN  /\ free' = r.free
         /\ calls' = Append(calls, [n |-> _size, ret |-> r.ret, epoch |-> nres])
         /\ last' = [NoLast EXCEPT !.op = "pool_get", !.n = _size, !.buf = r.ret]
  /\ UNCHANGED <<root, nres>>
  /\ RestUnchanged

PoolReserve == \E c \in Capacities : Reserve(c)

PoolGet == \E n \in Sizes : Get(n)

PoolNext == PoolReserve \/ PoolGet

SpecPool == Init /\ [][PoolNext]_vars

(***************************************************************************)
(* quad::map over the pool (src/source/cellpool.h)                         *)
(***************************************************************************)
\* capacities: enough for two tiles, enough for all
QuadCapacities == {2 * (tilearea \div levelarea), area \div levelarea}

\* world coordinates and slice coordinates the queries draw from
QuadCoords == {-2, -1, 0, 1, 511, 512, 513, 1023, 1024}
SliceCoords == {-1, 0, 1, 255, 256}
QuadPoints == {ivec2(a, b) : a, b \in QuadCoords}
SlicePoints == {ivec2(a, b) : a, b \in SliceCoords}

\* the operations that write the program's state
Writers == {"none", "pool_reserve", "pool_get", "quad_map_init", "quadmap_add"}

\* A query reads the state and writes none of it, so a run of queries reaches
\* the same records as its last query alone: queries are taken after a writer.
CanQuery == last.op \in Writers

Query(r) ==
  /\ last' = r
  /\ UNCHANGED <<root, free, nres, calls, nodes, ninit, quadmap_nodes, _min, _max, tile>>

QuadReserve == \E c \in QuadCapacities : Reserve(c)

MapInit ==
  /\ ninit < MaxInit
  /\ LET r == quad_map_init(cellpool, nodes, ninit * maparea + 1)
     IN  /\ free' = r.pool.free
         /\ nodes' = r.nodes
  /\ ninit' = ninit + 1
  /\ last' = [NoLast EXCEPT !.op = "quad_map_init"]
  /\ UNCHANGED <<root, nres, calls, quadmap_nodes, _min, _max, tile>>

SliceOob ==
  /\ CanQuery
  /\ \E k \in 0 .. maparea - 1, p \in SlicePoints :
       Query([NoLast EXCEPT !.op = "slice_oob", !.k = k, !.p = p,
                            !.b = slice_oob(nodes[k].s, p)])

SliceGet ==
  /\ CanQuery
  /\ \E k \in 0 .. maparea - 1, p \in SlicePoints :
       Query([NoLast EXCEPT !.op = "slice_get", !.k = k, !.p = p,
                            !.ptr = slice_get(nodes[k].s, p)])

NodeOob ==
  /\ CanQuery
  /\ \E k \in 0 .. maparea - 1, p \in QuadPoints :
       Query([NoLast EXCEPT !.op = "node_oob", !.k = k, !.p = p,
                            !.b = quad_node_oob(nodes[k], p)])

NodeGet ==
  /\ CanQuery
  /\ \E k \in 0 .. maparea - 1, p \in QuadPoints :
       Query([NoLast EXCEPT !.op = "node_get", !.k = k, !.p = p,
                            !.ptr = quad_node_get(nodes[k], p)])

\* quad::node::height: get(p)->height
NodeHeight ==
  /\ CanQuery
  /\ \E k \in 0 .. maparea - 1, p \in QuadPoints :
       \E o \in deref(quad_node_get(nodes[k], p)) :
         Query([NoLast EXCEPT !.op = "node_height", !.k = k, !.p = p, !.b = TRUE,
                              !.ptr = quad_node_get(nodes[k], p), !.out = o])

MapOob ==
  /\ CanQuery
  /\ \E p \in QuadPoints :
       Query([NoLast EXCEPT !.op = "map_oob", !.p = p, !.b = quad_map_oob(p)])

MapGet ==
  /\ CanQuery
  /\ \E p \in QuadPoints :
       Query([NoLast EXCEPT !.op = "map_get", !.p = p, !.ind = quad_map_get(p)])

\* quad::map::height and quad::map::discharge: the results the build can
\* produce, one unless it reads through NULL
quad_map_read(ns, p) ==
  LET n == quad_map_get(p)
  IN  IF n = -1
        THEN {ReadResult(FALSE, -1, NULL, "zero")}
        ELSE {ReadResult(TRUE, n, quad_node_get(ns[n], p), o) :
                o \in deref(quad_node_get(ns[n], p))}

MapHeight ==
  /\ CanQuery
  /\ \E p \in QuadPoints :
       \E r \in quad_map_read(nodes, p) :
         Query([NoLast EXCEPT !.op = "map_height", !.p = p, !.b = r.b, !.ind = r.ind,
                              !.ptr = r.ptr, !.out = r.out])

MapDischarge ==
  /\ CanQuery
  /\ \E p \in QuadPoints :
       \E r \in quad_map_read(nodes, p) :
         Query([NoLast EXCEPT !.op = "map_discharge", !.p = p, !.b = r.b, !.ind = r.ind,
                              !.ptr = r.ptr, !.out = r.out])

QuadNext ==
  \/ QuadReserve
  \/ MapInit
  \/ SliceOob
  \/ SliceGet
  \/ NodeOob
  \/ NodeGet
  \/ NodeHeight
  \/ MapOob
  \/ MapGet
  \/ MapHeight
  \/ MapDischarge

SpecQuad == Init /\ [][QuadNext]_vars

(***************************************************************************)
(* quadmap::map (src/unnamed/part_000)                                     *)
(***************************************************************************)
\* a tile of extent WSIZE at pos with scale sc over buffer b
MakeNode(pos, sc, b) ==
  quadmap_node(pos, ivec2(WSIZE, WSIZE), 0,
               slice3(b, ivec2(cdiv(WSIZE, sc), cdiv(WSIZE, sc)), sc))

\* the tile of the uniform grid at (i, j), over the cells of index i*TILES + j
Lattice(i, j) ==
  MakeNode(ivec2(WSIZE * i, WSIZE * j), 1,
           buf(Ptr(1, (i * TILES + j) * WSIZE * WSIZE), WSIZE * WSIZE))

\* the tiles add draws from: the uniform grid's and a tile left of the origin
NodeInputs ==
  {Lattice(i, j) : i, j \in 0 .. TILES - 1}
    \cup {MakeNode(ivec2(-WSIZE, 0), 1, buf(Ptr(2, 0), WSIZE * WSIZE))}

MapCoords == {-5, -1, 0, 1, 3, 4, 5, 7, 8}
MapPoints == {ivec2(a, b) : a, b \in MapCoords}

themap == quadmap_map(quadmap_nodes, _min, _max)

Add(n) ==
  /\ Len(quadmap_nodes) < MaxTiles
  /\ LET m == quadmap_map_add(themap, n)
     IN  /\ quadmap_nodes' = m.nodes
         /\ _min' = m._min
         /\ _max' = m._max
  /\ last' = [NoLast EXCEPT !.op = "quadmap_add"]
  /\ UNCHANGED <<root, free, nres, calls, nodes, ninit, tile>>

QmAdd == \E n \in NodeInputs : Add(n)

QmOob ==
  /\ CanQuery
  /\ \E p \in MapPoints :
       Query([NoLast EXCEPT !.op = "qm_oob", !.p = p, !.b = quadmap_map_oob(themap, p)])

QmGet ==
  /\ CanQuery
  /\ \E p \in MapPoints :
       Query([NoLast EXCEPT !.op = "qm_get", !.p = p,
                            !.b = ~quadmap_map_get(themap, p).null,
                            !.ind = quadmap_map_get(themap, p).ind])

QmHeight ==
  /\ CanQuery
  /\ \E p \in MapPoints :
       \E r \in reduce_map_read(themap, p) :
         Query([NoLast EXCEPT !.op = "reduce_height", !.p = p, !.b = r.b, !.ind = r.ind,
                              !.ptr = r.ptr, !.out = r.out])

QmDischarge ==
  /\ CanQuery
  /\ \E p \in MapPoints :
       \E r \in reduce_map_read(themap, p) :
         Query([NoLast EXCEPT !.op = "reduce_discharge", !.p = p, !.b = r.b, !.ind = r.ind,
                              !.ptr = r.ptr, !.out = r.out])

QuadmapNext == QmAdd \/ QmOob \/ QmGet \/ QmHeight \/ QmDischarge

SpecQuadmap == Init /\ [][QuadmapNext]_vars

(***************************************************************************)
(* One quadmap::node and its slice (src/unnamed/part_000)                  *)
(***************************************************************************)
\* a tile at pos of extent res with scale sc over buffer b
MakeTile(pos, res, sc, b) ==
  quadmap_node(pos, res, 0, slice3(b, vdiv(res, sc), sc))

\* the buffers a tile of slice size n is put over: none, one of length n, one
\* of another length
TileBufs(n) == {NullBuf, buf(Ptr(1, 0), n), buf(Ptr(1, 16), 3)}

\* the tiles the queries are made of: the default node, and tiles at three
\* origins, square and not, at scales 1 and 2
TileInputs ==
  {quadmap_node0}
    \cup UNION {{MakeTile(pos, res, sc, b) :
                   b \in TileBufs(cdiv(res.x, sc) * cdiv(res.y, sc))} :
                 pos \in {ivec2(0, 0), ivec2(WSIZE, WSIZE), ivec2(-WSIZE, 0)},
                 res \in {ivec2(WSIZE, WSIZE), ivec2(WSIZE, WSIZE \div 2)},
                 sc \in {1, 2}}

TileCoords == -5 .. 9
TilePoints == {ivec2(a, b) : a, b \in TileCoords}

TileInit ==
  /\ root = NullBuf
  /\ free = <<>>
  /\ nres = 0
  /\ calls = <<>>
  /\ nodes = [k \in 0 .. maparea - 1 |-> quad_node0]
  /\ ninit = 0
  /\ quadmap_nodes = <<>>
  /\ _min = ivec2(0, 0)
  /\ _max = ivec2(0, 0)
  /\ tile \in TileInputs
  /\ last = NoLast

TSliceSize ==
  /\ CanQuery
  /\ Query([NoLast EXCEPT !.op = "slice_size", !.n = slice_size(tile.s)])

TSliceOob ==
  /\ CanQuery
  /\ \E p \in TilePoints :
       Query([NoLast EXCEPT !.op = "slice_oob", !.p = p, !.b = slice_oob(tile.s, p)])

TSliceGet ==
  /\ CanQuery
  /\ \E p \in TilePoints :
       Query([NoLast EXCEPT !.op = "slice_get", !.p = p, !.ptr = slice_get(tile.s, p)])

TNodeOob ==
  /\ CanQuery
  /\ \E p \in TilePoints :
       Query([NoLast EXCEPT !.op = "node_oob", !.p = p, !.b = quadmap_node_oob(tile, p)])

TNodeGet ==
  /\ CanQuery
  /\ \E p \in TilePoints :
       Query([NoLast EXCEPT !.op = "node_get", !.p = p, !.ptr = quadmap_node_get(tile, p)])

\* reduce::height(node*, p): t->get(p)->height
TNodeHeight ==
  /\ CanQuery
  /\ \E p \in TilePoints :
       \E o \in deref(quadmap_node_get(tile, p)) :
         Query([NoLast EXCEPT !.op = "reduce_height", !.p = p, !.b = TRUE,
                              !.ptr = quadmap_node_get(tile, p), !.out = o])

\* reduce::discharge(node*, p): erf(0.4f*t->get(p)->discharge)
TNodeDischarge ==
  /\ CanQuery
  /\ \E p \in TilePoints :
       \E o \in deref(quadmap_node_get(tile, p)) :
         Query([NoLast EXCEPT !.op = "reduce_discharge", !.p = p, !.b = TRUE,
                              !.ptr = quadmap_node_get(tile, p), !.out = o])

TileNext ==
  \/ TSliceSize
  \/ TSliceOob
  \/ TSliceGet
  \/ TNodeOob
  \/ TNodeGet
  \/ TNodeHeight
  \/ TNodeDischarge

SpecTile == TileInit /\ [][TileNext]_vars

(***************************************************************************)
(* Pool claims                                                             *)
(***************************************************************************)
RECURSIVE SumN(_, _)
\* the sizes requested by the first k recorded calls, added up
SumN(cs, k) == IF k = 0 THEN 0 ELSE SumN(cs, k - 1) + cs[k].n

\* the element offsets a buffer covers
Range(b) == {b.start.off + i : i \in 0 .. b.size - 1}

\* reserve ran once, before every recorded get
ReservedOnce == nres = 1 /\ \A i \in 1 .. Len(calls) : calls[i].epoch = 1

\* the recorded calls that returned a buffer
Issued == {i \in 1 .. Len(calls) : calls[i].ret.start # NULL}

\* C1: in a pool reserved once with capacity C, while the requested sizes add
\* up to at most C every get returns a buffer of the requested length that
\* starts where the one before ended; the issued buffers and the free region
\* are pairwise disjoint and together cover [0, C).
C1_Partition ==
  ReservedOnce =>
    /\ SumN(calls, Len(calls)) <= root.size =>
         \A i \in 1 .. Len(calls) :
           /\ calls[i].ret.size = calls[i].n
           /\ calls[i].ret.start = PtrAdd(root.start, SumN(calls, i - 1))
    /\ Len(free) = 1
    /\ \A i \in Issued : calls[i].ret.start.blk = root.start.blk
    /\ \A i, j \in Issued : i # j => Range(calls[i].ret) \cap Range(calls[j].ret) = {}
    /\ \A i \in Issued : Range(calls[i].ret) \cap Range(free[1]) = {}
    /\ UNION {Range(calls[i].ret) : i \in Issued} \cup Range(free[1])
         = 0 .. root.size - 1

C1_Witness ==
  /\ ReservedOnce
  /\ Len(calls) = 3
  /\ \A i \in 1 .. 3 : calls[i].n > 0 /\ calls[i].ret.start # NULL
  /\ calls[1].n # calls[2].n
  /\ SumN(calls, 3) < root.size

\* a step that is one call of pool::get
GetStep == last'.op = "pool_get" /\ Len(calls') = Len(calls) + 1

\* the length left in the front free region, 0 when there is none
Remaining == IF free = <<>> THEN 0 ELSE Head(free).size

\* capacity 100: get(40), get(50), get(20)
Scenario100 ==
  /\ ReservedOnce
  /\ root.size = 100
  /\ Len(calls) = 3
  /\ calls[1].n = 40 /\ calls[2].n = 50 /\ calls[3].n = 20

\* C2: get(n) returns {NULL, 0} whenever n exceeds the remaining free length
\* (no free region, n above the capacity included) and then leaves the free
\* regions as they were; capacity 100 with get(40), get(50), get(20) gives
\* offsets 0 and 40, then {NULL, 0}, with 10 left.
C2_FailUnchanged ==
  /\ [][GetStep /\ (free = <<>> \/ last'.n > root.size \/ last'.n > Remaining)
          => last'.buf = NullBuf /\ free' = free /\ root' = root]_vars
  /\ [](Scenario100 =>
          /\ calls[1].ret = buf(PtrAdd(root.start, 0), 40)
          /\ calls[2].ret = buf(PtrAdd(root.start, 40), 50)
          /\ calls[3].ret = NullBuf
          /\ Remaining = 10)

C2_Witness == Scenario100 /\ last.op = "pool_get" /\ last.buf = NullBuf

\* C3: a get that returns a buffer moves the front free region's start up by n
\* and its length down by n; no get changes the pool's root or a buffer issued
\* before; the front region's start never goes down and its length never up.
C3_Monotonic ==
  [][GetStep =>
       /\ root' = root
       /\ \A i \in 1 .. Len(calls) : calls'[i] = calls[i]
       /\ Len(free') = Len(free)
       /\ last'.buf # NullBuf =>
            /\ last'.buf = buf(Head(free).start, last'.n)
            /\ Head(free').start = PtrAdd(Head(free).start, last'.n)
            /\ Head(free').size = Head(free).size - last'.n
            /\ Tail(free') = Tail(free)
       /\ free # <<>> =>
            /\ Head(free').start.blk = Head(free).start.blk
            /\ Head(free').start.off >= Head(free).start.off
            /\ Head(free').size <= Head(free).size
            /\ Head(free').size >= 0]_vars

C3_Witness ==
  /\ last.op = "pool_get"
  /\ last.buf.start # NULL
  /\ last.n > 0
  /\ Len(calls) >= 2
  /\ calls[1].ret.start # NULL

(***************************************************************************)
(* Slice and tile claims on quad::node (src/source/cellpool.h)             *)
(***************************************************************************)
\* p lies outside [0, res) on some axis
OutsideRes(s, p) == p.x < 0 \/ p.y < 0 \/ p.x >= s.res.x \/ p.y >= s.res.y

\* C4: slice::get(p) is NULL exactly when slice::oob(p) or the backing pointer
\* is NULL, and oob(p) is p.x < 0 or p.y < 0 or p.x >= res.x or p.y >= res.y.
C4_GetNullIffOob ==
  LET s == nodes[last.k].s
  IN  /\ last.op = "slice_oob" => (last.b <=> OutsideRes(s, last.p))
      /\ last.op = "slice_get" =>
           (last.ptr = NULL <=> (OutsideRes(s, last.p) \/ s.root.start = NULL))

C4_Witness ==
  /\ last.op = "slice_get"
  /\ last.ptr = NULL
  /\ nodes[last.k].s.root.start # NULL
  /\ last.p.x < 0
  /\ last.p.y = 0

\* the factor by which a tile's slice resolution is below its extent
Reduction(t) == ivec2(t.res.x \div t.s.res.x, t.res.y \div t.s.res.y)

\* C5: a tile's get(p) and oob(p) are its slice's get and oob at
\* (p - pos)/scale, the scale being the factor by which the slice's
\* resolution was reduced from the tile's extent.
C5_TileTransform ==
  LET t == nodes[last.k]
  IN  (last.op \in {"node_get", "node_oob"} /\ t.s.res.x > 0 /\ t.s.res.y > 0) =>
        LET f == Reduction(t)
            q == ivec2(cdiv(last.p.x - t.pos.x, f.x), cdiv(last.p.y - t.pos.y, f.y))
        IN  /\ f.x = f.y
            /\ t.s.res.x * f.x = t.res.x
            /\ t.s.res.y * f.y = t.res.y
            /\ last.op = "node_get" => last.ptr = slice_get(t.s, q)
            /\ last.op = "node_oob" => last.b = slice_oob(t.s, q)

C5_Witness ==
  /\ last.op = "node_get"
  /\ last.k = maparea - 1
  /\ last.ptr # NULL
  /\ last.ptr # nodes[last.k].s.root.start

\* p lies in the tile's world footprint
InFootprint(t, p) ==
  /\ t.pos.x <= p.x /\ p.x < t.pos.x + t.res.x
  /\ t.pos.y <= p.y /\ p.y < t.pos.y + t.res.y

\* C9: a tile's oob(p) is false exactly for the points of its footprint
\* pos <= p < pos + res, and get(p) is NULL for every p with p.x < pos.x or
\* p.y < pos.y.
C9_OobIsFootprint ==
  LET t == nodes[last.k]
  IN  /\ (last.op = "node_oob" /\ t.s.res.x > 0 /\ t.s.res.y > 0) =>
           (~last.b <=> InFootprint(t, last.p))
      /\ (last.op = "node_get" /\ (last.p.x < t.pos.x \/ last.p.y < t.pos.y)) =>
           last.ptr = NULL

\* quad::map::height and discharge read the cell the owning tile gives for p
Quad_ReadsOwnCell ==
  (last.op \in {"map_height", "map_discharge"}) =>
     IF quad_map_oob(last.p)
       THEN last.out = "zero" /\ ~last.b
       ELSE /\ last.ind \in 0 .. maparea - 1
            /\ last.ptr = quad_node_get(nodes[quad_map_get(last.p)], last.p)

(***************************************************************************)
(* Claims on quadmap::node and its slice (src/unnamed/part_000)            *)
(***************************************************************************)
\* the 4 x 4 tile at the origin with scale 1 over 16 cells
ScenarioTile ==
  /\ tile.pos = ivec2(0, 0)
  /\ tile.res = ivec2(4, 4)
  /\ tile.s.scale = 1
  /\ tile.s.res = ivec2(4, 4)
  /\ tile.s.root.start # NULL
  /\ tile.s.root.size = 16

\* C8: in a slice with a backing whose length is res.x*res.y, get(p) of an
\* in-bounds p is the pointer p.x*res.y + p.y past the buffer's start; the
\* offset lies in [0, size()) and differs between different in-bounds points;
\* the 4 x 4 tile at (0,0) with scale 1 gives offset 11 for (2,3) and NULL for
\* (4,0) and (-1,0).
C8_RowMajorOffset ==
  LET s == tile.s
  IN  /\ (/\ last.op = "slice_get"
          /\ s.root.start # NULL
          /\ s.res.x * s.res.y = s.root.size
          /\ ~OutsideRes(s, last.p)) =>
           /\ last.ptr = PtrAdd(s.root.start, last.p.x * s.res.y + last.p.y)
           /\ last.ptr.off - s.root.start.off \in 0 .. s.res.x * s.res.y - 1
           /\ \A q \in TilePoints :
                (~OutsideRes(s, q) /\ q # last.p) => slice_get(s, q) # last.ptr
      /\ (last.op = "slice_size" /\ s.res.x * s.res.y = s.root.size) =>
           last.n = s.root.size
      /\ (last.op = "node_get" /\ ScenarioTile) =>
           /\ last.p = ivec2(2, 3) => last.ptr = PtrAdd(s.root.start, 11)
           /\ last.p = ivec2(4, 0) => last.ptr = NULL
           /\ last.p = ivec2(-1, 0) => last.ptr = NULL

C8_Witness ==
  /\ ScenarioTile
  /\ last.op = "node_get"
  /\ last.p = ivec2(2, 3)
  /\ last.ptr = PtrAdd(tile.s.root.start, 11)

(***************************************************************************)
(* Claims on quadmap::map and reduce (src/unnamed/part_000)                *)
(***************************************************************************)
\* the least and the greatest of a non-empty finite set of integers
SetMin(S) == CHOOSE a \in S : \A b \in S : a <= b
SetMax(S) == CHOOSE a \in S : \A b \in S : a >= b

Added == 1 .. Len(quadmap_nodes)

\* C6: after any sequence of add calls on a fresh map, _min is the
\* componentwise minimum of the tiles' pos and _max the componentwise maximum
\* of their pos + res.
C6_BoundingBox ==
  Added # {} =>
    /\ _min.x = SetMin({quadmap_nodes[i].pos.x : i \in Added})
    /\ _min.y = SetMin({quadmap_nodes[i].pos.y : i \in Added})
    /\ _max.x = SetMax({quadmap_nodes[i].pos.x + quadmap_nodes[i].res.x : i \in Added})
    /\ _max.y = SetMax({quadmap_nodes[i].pos.y + quadmap_nodes[i].res.y : i \in Added})

\* the tiles are those of the uniform grid, added in row-major order
WellFormed ==
  /\ Len(quadmap_nodes) = TILES * TILES
  /\ \A i, j \in 0 .. TILES - 1 :
       /\ quadmap_nodes[i * TILES + j + 1].pos = ivec2(WSIZE * i, WSIZE * j)
       /\ quadmap_nodes[i * TILES + j + 1].res = ivec2(WSIZE, WSIZE)

\* the tiles whose footprint holds p
Owners(p) == {i \in Added : InFootprint(quadmap_nodes[i], p)}

\* C7: map::get(p) is NULL for every p outside [_min, _max); in a well-formed
\* uniform grid it is, for every p in the footprint of exactly one tile, the
\* pointer to that tile, which is the one at index
\* (p.x/WSIZE)*TILES + p.y/WSIZE, an index of the collection.
C7_GetOwner ==
  last.op = "qm_get" =>
    /\ (\/ last.p.x < _min.x \/ last.p.y < _min.y
        \/ last.p.x >= _max.x \/ last.p.y >= _max.y) => ~last.b
    /\ (WellFormed /\ Cardinality(Owners(last.p)) = 1) =>
         /\ last.b
         /\ last.ind = cdiv(last.p.x, WSIZE) * TILES + cdiv(last.p.y, WSIZE)
         /\ last.ind \in 0 .. Len(quadmap_nodes) - 1
         /\ Owners(last.p) = {last.ind + 1}

C7_Witness ==
  /\ WellFormed
  /\ last.op = "qm_get"
  /\ last.p = ivec2(5, 3)
  /\ last.b
  /\ last.ind = 2

\* every tile has a backing
AllBacked == \A i \in Added : quadmap_nodes[i].s.root.start # NULL

\* C10: in a well-formed uniform grid whose tiles all have a backing, the
\* map-level height and discharge of a p that is not oob read the cell the
\* owning tile returns for p itself, map.get(p)->get(p), never through NULL;
\* for an oob p they return 0 and read no tile.
C10_ReadsOwnCell ==
  (last.op \in {"reduce_height", "reduce_discharge"} /\ WellFormed /\ AllBacked) =>
     IF quadmap_map_oob(themap, last.p)
       THEN last.out = "zero" /\ ~last.b
       ELSE /\ last.ptr # NULL
            /\ last.ptr =
                 quadmap_node_get(
                   quadmap_nodes[quadmap_map_get(themap, last.p).ind + 1], last.p)

====
